---- MODULE Spec2Model ----
(***************************************************************************)
(* snip: a terminal snippet manager (src/main.py).                         *)
(*                                                                         *)
(* Text is modelled as a sequence of one-character strings, so that        *)
(* lower-casing, splitting, joining and SQL LIKE matching are computed     *)
(* character by character as the code (Python and SQLite) computes them.   *)
(* The snippets table is a set of rows; sqlite_sequence is `seq`.          *)
(***************************************************************************)
EXTENDS Integers, Sequences, FiniteSets, TLC

VARIABLES
    snippets,   \* the rows of table snippets (Database.conn)
    seq,        \* sqlite_sequence.seq of table snippets (AUTOINCREMENT)
    now,        \* the last value datetime.now() returned, in clock units
    ret,        \* what the last Database call returned or raised
    calls,      \* how many Database write calls were made directly so far
    issued,     \* history: the ids add_snippet has returned, oldest first
    files,      \* FILES_DIR: file name (without ".md") -> content
    cmd,        \* the CLI command in progress (blocked in the editor) or idle
    out,        \* the outcome the last CLI command printed
    app,        \* the SnippetApp: its widgets' values and self.snippets
    inbox       \* input events delivered to the app and not yet handled

vars == <<snippets, seq, now, ret, calls, issued, files, cmd, out, app, inbox>>

----------------------------------------------------------------------------
(* Bounds of the model *)

\* at most MaxCalls direct calls of add_snippet, update_snippet, delete_snippet
MaxCalls == 3
\* the clock is read at most up to MaxTime units
MaxTime == 2
\* the commands stop creating files when FILES_DIR holds MaxFiles
MaxFiles == 2
\* at most MaxPending input events wait for the app at a time
MaxPending == 1
\* clock units per printed second: the fraction isoformat() prints
UnitsPerSec == 2

----------------------------------------------------------------------------
(* Text *)

\* SQL NULL / Python None for a text value
NULL == <<"NULL">>
\* Python None for a list-of-text parameter
NoneList == <<NULL>>

Max(a, b) == IF a >= b THEN a ELSE b

\* str.lower() / SQL LOWER() on one (ASCII) character
LowerChar(c) ==
    CASE c = "A" -> "a"
      [] c = "B" -> "b"
      [] OTHER -> c

Lower(s) == [i \in 1..Len(s) |-> LowerChar(s[i])]

IsSpace(c) == c = " "

\* length of the leading run of non-whitespace characters of s
RECURSIVE TokenLen(_)
TokenLen(s) ==
    IF s = <<>> \/ IsSpace(Head(s)) THEN 0 ELSE 1 + TokenLen(Tail(s))

\* str.split() with no argument: split on runs of whitespace, no empty items
RECURSIVE SplitWs(_)
SplitWs(s) ==
    IF s = <<>> THEN <<>>
    ELSE IF IsSpace(Head(s)) THEN SplitWs(Tail(s))
    ELSE LET n == TokenLen(s)
         IN  <<SubSeq(s, 1, n)>> \o SplitWs(SubSeq(s, n + 1, Len(s)))

\* length of the leading run of characters of s other than d
RECURSIVE FieldLen(_, _)
FieldLen(s, d) ==
    IF s = <<>> \/ Head(s) = d THEN 0 ELSE 1 + FieldLen(Tail(s), d)

\* str.split(d): every d separates two items, empty items are kept
RECURSIVE SplitOn(_, _)
SplitOn(s, d) ==
    LET n == FieldLen(s, d)
    IN  IF n = Len(s) THEN <<s>>
        ELSE <<SubSeq(s, 1, n)>> \o SplitOn(SubSeq(s, n + 2, Len(s)), d)

\* a join that forgets the delimiter
RECURSIVE JoinNoDelimiter(_, _)
JoinNoDelimiter(items, d) ==
    IF items = <<>> THEN <<>> ELSE Head(items) \o JoinNoDelimiter(Tail(items), d)

\* d.join(items)
RECURSIVE Join(_, _)
Join(items, d) ==
    IF items = <<>> THEN <<>>
    ELSE IF Len(items) = 1 THEN Head(items)
    ELSE Head(items) \o <<d>> \o Join(Tail(items), d)

RECURSIVE LStrip(_)
LStrip(s) == IF s # <<>> /\ IsSpace(Head(s)) THEN LStrip(Tail(s)) ELSE s

RECURSIVE RStrip(_)
RStrip(s) ==
    IF s # <<>> /\ IsSpace(s[Len(s)]) THEN RStrip(SubSeq(s, 1, Len(s) - 1)) ELSE s

\* str.strip()
Strip(s) == RStrip(LStrip(s))

\* SQLite's LIKE: % matches any run of characters, _ matches exactly one
\* character, any other character matches itself without regard to ASCII case
RECURSIVE Like(_, _)
Like(pat, txt) ==
    IF pat = <<>> THEN txt = <<>>
    ELSE IF Head(pat) = "%"
         THEN Like(Tail(pat), txt) \/ (txt # <<>> /\ Like(pat, Tail(txt)))
         ELSE /\ txt # <<>>
              /\ (Head(pat) = "_" \/ LowerChar(Head(pat)) = LowerChar(Head(txt)))
              /\ Like(Tail(pat), Tail(txt))

----------------------------------------------------------------------------
(* Timestamps *)

DigitChars == <<"0", "1", "2", "3", "4", "5", "6", "7", "8", "9">>
Digit(n) == DigitChars[n + 1]

\* the characters of a timestamp in byte order (SQLite compares TEXT by memcmp)
StampChars == <<".">> \o DigitChars \o <<"T">>
Code(c) == CHOOSE i \in 1..Len(StampChars) : StampChars[i] = c

\* datetime.isoformat() of clock reading t: the date and time at fixed width
\* (here "T" and two digits of seconds), then the fraction of a second, which
\* isoformat() leaves out when it is zero
IsoFormat(t) ==
    LET s == t \div UnitsPerSec
        u == t % UnitsPerSec
    IN  <<"T", Digit(s \div 10), Digit(s % 10)>>
        \o (IF u = 0 THEN <<>> ELSE <<".", Digit(u)>>)

\* a < b in SQLite's BINARY collation
RECURSIVE TextLess(_, _)
TextLess(a, b) ==
    IF b = <<>> THEN FALSE
    ELSE IF a = <<>> THEN TRUE
    ELSE IF Head(a) = Head(b) THEN TextLess(Tail(a), Tail(b))
    ELSE Code(Head(a)) < Code(Head(b))

\* the values datetime.now() may return next: the clock does not run backwards
ClockReads == {t \in now..MaxTime : t <= now + 1}

----------------------------------------------------------------------------
(* Database: the snippets table *)

\* the arguments the model passes to add_snippet
InsertArgs ==
    { [title |-> <<"A", "b">>, tags |-> << <<"x">> >>,
       description |-> <<>>, filepath |-> <<"f">>],
      [title |-> <<"b">>, tags |-> << <<"x">>, <<"y">> >>,
       description |-> <<"a">>, filepath |-> <<"g">>],
      [title |-> <<>>, tags |-> << <<"x">> >>,
       description |-> NULL, filepath |-> <<"f">>],
      [title |-> <<"c">>, tags |-> <<>>,
       description |-> <<>>, filepath |-> <<"g">>],
      [title |-> <<"a">>, tags |-> << <<"x", ",", "y">> >>,
       description |-> <<>>, filepath |-> <<"f">>],
      [title |-> NULL, tags |-> << <<"x">> >>,
       description |-> <<>>, filepath |-> <<"f">>] }

\* the optional arguments the model passes to update_snippet
UpdateArgs ==
    { [title |-> <<"c">>, tags |-> NoneList, description |-> NULL],
      [title |-> <<>>, tags |-> NoneList, description |-> NULL],
      [title |-> NULL, tags |-> << <<"z">> >>, description |-> NULL],
      [title |-> NULL, tags |-> NoneList, description |-> <<"d">>],
      [title |-> NULL, tags |-> NoneList, description |-> NULL],
      [title |-> <<"B">>, tags |-> <<>>, description |-> <<>>] }

\* the ids the model passes to update, delete and get
RowIds == 1..MaxCalls

\* the query texts the model passes to search_snippets
Queries ==
    { <<>>, <<" ">>, <<"B">>, <<"_">>, <<"%">>,
      <<"a", " ", "b">>, <<"y", " ", " ", "X">> }

\* Python truthiness of an optional text argument: None and "" are false
Truthy(s) == s # NULL /\ s # <<>>

MaxRowid(rows) ==
    IF rows = {} THEN 0 ELSE CHOOSE m \in {r.id : r \in rows} : \A r \in rows : r.id <= m

\* a rowid chosen without AUTOINCREMENT: one more than the largest rowid held
NextRowidOfHeldRows == MaxRowid(snippets) + 1

\* INTEGER PRIMARY KEY AUTOINCREMENT: one more than the largest rowid the
\* table has ever held (sqlite_sequence), not merely than the largest it holds
NextRowid == Max(seq, MaxRowid(snippets)) + 1

\* the NOT NULL columns of the schema
NotNullHolds(row) ==
    /\ row.title # NULL
    /\ row.tags # NULL
    /\ row.filepath # NULL
    /\ row.created # NULL
    /\ row.modified # NULL

add_snippet(title, tags, description, filepath) ==
    \E t \in ClockReads :
        LET stamp == IsoFormat(t)
            row == [id |-> NextRowid, title |-> title, tags |-> Join(tags, ","),
                    description |-> description, filepath |-> filepath,
                    created |-> stamp, modified |-> stamp]
        IN  /\ now' = t
            /\ IF NotNullHolds(row)
               THEN /\ snippets' = snippets \cup {row}
                    /\ seq' = row.id
                    /\ issued' = Append(issued, row.id)
                    /\ ret' = [op |-> "add", id |-> row.id, signal |-> "ok"]
               ELSE /\ ret' = [op |-> "add", id |-> 0, signal |-> "IntegrityError"]
                    /\ UNCHANGED <<snippets, seq, issued>>

\* the row UPDATE ... SET leaves in place of row r
Updated(r, title, tags, description, stamp) ==
    [r EXCEPT !.title = IF Truthy(title) THEN title ELSE @,
              !.tags = IF tags # NoneList THEN Join(tags, ",") ELSE @,
              !.description = IF description # NULL THEN description ELSE @,
              !.modified = stamp]

\* whether update_snippet builds a non-empty SET list
HasUpdates(title, tags, description) ==
    Truthy(title) \/ tags # NoneList \/ description # NULL

update_snippet(snippet_id, title, tags, description) ==
    /\ ret' = [op |-> "update", id |-> snippet_id, signal |-> "ok"]
    /\ UNCHANGED <<seq, issued>>
    /\ IF HasUpdates(title, tags, description)
       THEN \E t \in ClockReads :
               /\ now' = t
               /\ snippets' =
                    { IF r.id = snippet_id
                      THEN Updated(r, title, tags, description, IsoFormat(t))
                      ELSE r : r \in snippets }
       ELSE UNCHANGED <<snippets, now>>

\* the rows DELETE ... WHERE id = ? leaves
DeleteFrom(rows, snippet_id) == {r \in rows : r.id # snippet_id}

delete_snippet(snippet_id) ==
    /\ snippets' = DeleteFrom(snippets, snippet_id)
    /\ ret' = [op |-> "delete", id |-> snippet_id, signal |-> "ok"]
    /\ UNCHANGED <<seq, now, issued>>

\* terms = query.lower().split()
Terms(query) == SplitWs(Lower(query))

\* search_term = f"%{term}%"
Pattern(term) == <<"%">> \o term \o <<"%">>

\* LOWER(col) LIKE ?; on a NULL column the result is NULL, which selects nothing
ColumnLike(col, pat) == col # NULL /\ Like(pat, Lower(col))

\* (LOWER(title) LIKE ? OR LOWER(tags) LIKE ? OR LOWER(description) LIKE ?)
TermCondition(r, term) ==
    \/ ColumnLike(r.title, Pattern(term))
    \/ ColumnLike(r.tags, Pattern(term))
    \/ ColumnLike(r.description, Pattern(term))

\* the conditions joined by AND
WhereHolds(r, terms) == \A i \in 1..Len(terms) : TermCondition(r, terms[i])

\* a query that is not empty and has no term gives "WHERE  ORDER BY", which
\* SQLite refuses: conn.execute raises sqlite3.OperationalError
SearchRaises(query) == query # <<>> /\ Terms(query) = <<>>

\* the rows the SELECT of search_snippets selects
Selected(query) ==
    IF query = <<>> THEN snippets
    ELSE LET terms == Terms(query)
         IN  {r \in snippets : WhereHolds(r, terms)}

\* ORDER BY modified ASC in place of DESC
RECURSIVE OrderByModifiedAsc(_)
OrderByModifiedAsc(rows) ==
    IF rows = {} THEN {<<>>}
    ELSE LET first == {r \in rows : \A o \in rows : ~TextLess(o.modified, r.modified)}
         IN  UNION { {<<r>> \o s : s \in OrderByModifiedAsc(rows \ {r})} : r \in first }

\* ORDER BY modified DESC: every order of the rows in which no row comes before
\* one with a greater modified text (the order among equal texts is not fixed)
RECURSIVE OrderByModifiedDesc(_)
OrderByModifiedDesc(rows) ==
    IF rows = {} THEN {<<>>}
    ELSE LET first == {r \in rows : \A o \in rows : ~TextLess(r.modified, o.modified)}
         IN  UNION { {<<r>> \o s : s \in OrderByModifiedDesc(rows \ {r})} : r \in first }

\* the lists search_snippets(query) may return
search_snippets(query) == OrderByModifiedDesc(Selected(query))

\* get_snippet: the rows with that id (at most one); none stands for None
get_snippet(snippet_id) == {r \in snippets : r.id = snippet_id}

\* snippet['tags'].split(',') if snippet['tags'] else []
TagList(tags_str) == IF tags_str = <<>> THEN <<>> ELSE SplitOn(tags_str, ",")

----------------------------------------------------------------------------
(* The Database API called directly *)

ApiAdd ==
    /\ calls < MaxCalls
    /\ calls' = calls + 1
    /\ \E a \in InsertArgs : add_snippet(a.title, a.tags, a.description, a.filepath)
    /\ UNCHANGED <<files, cmd, out, app, inbox>>

ApiUpdate ==
    /\ calls < MaxCalls
    /\ calls' = calls + 1
    /\ \E id \in RowIds, u \in UpdateArgs :
          update_snippet(id, u.title, u.tags, u.description)
    /\ UNCHANGED <<files, cmd, out, app, inbox>>

ApiDelete ==
    /\ calls < MaxCalls
    /\ calls' = calls + 1
    /\ \E id \in RowIds : delete_snippet(id)
    /\ UNCHANGED <<files, cmd, out, app, inbox>>

\* ListView.index when no item is highlighted (None)
NoIndex == -1

\* no SnippetApp is running; self.snippets = [] is what __init__ leaves
AppOff ==
    [pc |-> "off", query |-> <<>>, snippets |-> <<>>, index |-> NoIndex,
     detail |-> <<>>, error |-> ""]

\* a fresh store: CREATE TABLE IF NOT EXISTS on an empty database file
InitDb ==
    /\ snippets = {}
    /\ seq = 0
    /\ now = 0
    /\ ret = [op |-> "init", id |-> 0, signal |-> "ok"]
    /\ calls = 0
    /\ issued = <<>>

Init ==
    /\ InitDb
    /\ files = <<>>
    /\ cmd = [pc |-> "idle"]
    /\ out = [cmd |-> "none", msgs |-> <<>>]
    /\ app = AppOff
    /\ inbox = <<>>

Next == ApiAdd \/ ApiUpdate \/ ApiDelete

Spec == Init /\ [][Next]_vars

----------------------------------------------------------------------------
(* Claims about the Database *)

Range(s) == {s[i] : i \in DOMAIN s}

\* term occurs in txt as a contiguous run of characters
SubstringOf(term, txt) ==
    \E i \in 1..(Len(txt) - Len(term) + 1) : SubSeq(txt, i, i + Len(term) - 1) = term

\* term is a case-insensitive substring of a field; an absent field has none
FieldHas(field, term) == field # NULL /\ SubstringOf(Lower(term), Lower(field))

\* every term of q is a case-insensitive substring of title, tags or description
MatchesEveryTerm(r, q) ==
    \A i \in 1..Len(SplitWs(q)) :
        LET term == SplitWs(q)[i]
        IN  FieldHas(r.title, term) \/ FieldHas(r.tags, term)
              \/ FieldHas(r.description, term)

\* C1: for every query with at least one whitespace-delimited term, search
\* returns exactly the records for which every term is a case-insensitive
\* substring of title, the joined tag string or description.
C1_SearchIsSubstringMatch ==
    \A q \in Queries :
        SplitWs(q) # <<>> =>
            \A s \in search_snippets(q) :
                Range(s) = {r \in snippets : MatchesEveryTerm(r, q)}

\* the clock reading a stored timestamp text denotes
StampTime(stamp) == CHOOSE t \in 0..MaxTime : IsoFormat(t) = stamp

\* in list s no record comes before one that was modified later
LatestFirst(s) ==
    LET time == [i \in DOMAIN s |-> StampTime(s[i].modified)]
    IN  \A i \in DOMAIN s : \A j \in DOMAIN s : i < j => time[i] >= time[j]

\* list s holds every record of rows exactly once
ListsEachOnce(s, rows) == Range(s) = rows /\ Len(s) = Cardinality(rows)

\* a record inserted or changed by this step is stamped no older than any other
TouchedIsLatest ==
    \A r \in snippets' :
        r \notin snippets =>
            \A o \in snippets' : StampTime(r.modified) >= StampTime(o.modified)

\* C2: after any sequence of insert, update and delete, search("") returns
\* every record of the index exactly once, ordered by modified descending, the
\* record most recently inserted or updated before every record with an older
\* stamp; a non-empty query returns its matches in that same relative order.
C2_SearchOrder ==
    /\ [](\A s \in search_snippets(<<>>) :
             ListsEachOnce(s, snippets) /\ LatestFirst(s))
    /\ [](LET everything == search_snippets(<<>>)
          IN  \A q \in Queries :
                 ~SearchRaises(q) =>
                     \A s \in search_snippets(q) :
                         /\ LatestFirst(s)
                         /\ \E all \in everything :
                               SelectSeq(all, LAMBDA r : r \in Range(s)) = s)
    /\ [][TouchedIsLatest]_vars

\* a state in which an update has moved an older record in front of a newer one
C2_Witness ==
    \E r1 \in snippets : \E r2 \in snippets :
        /\ r1.id < r2.id
        /\ StampTime(r1.modified) > StampTime(r2.modified)
        /\ \A s \in search_snippets(<<>>) : s[1] = r1

\* arguments the data model calls valid: a non-empty title, at least one tag,
\* every tag non-empty and free of the delimiter
ValidArgs(a) ==
    /\ a.title # NULL /\ a.title # <<>>
    /\ a.tags # <<>>
    /\ \A i \in DOMAIN a.tags : a.tags[i] # <<>> /\ "," \notin Range(a.tags[i])
    /\ a.filepath # NULL

\* C3: for all valid (title, tags, description, filepath), insert followed by
\* get(id) on the returned id yields a record with the inserted title, tag
\* sequence (recovered from the delimited field), description and filepath,
\* and with created equal to modified.
C3_InsertThenGet ==
    [][\A a \in InsertArgs :
          (ValidArgs(a) /\ add_snippet(a.title, a.tags, a.description, a.filepath))
          => \E id \in RowIds :
                /\ ret' = [op |-> "add", id |-> id, signal |-> "ok"]
                /\ Cardinality(get_snippet(id)') = 1
                /\ \A r \in get_snippet(id)' :
                      /\ r.title = a.title
                      /\ TagList(r.tags) = a.tags
                      /\ r.description = a.description
                      /\ r.filepath = a.filepath
                      /\ r.created = r.modified]_vars

\* a state right after the insert of a valid record with two tags
C3_Witness ==
    /\ ret.op = "add" /\ ret.signal = "ok"
    /\ \E r \in get_snippet(ret.id) :
          /\ Len(TagList(r.tags)) = 2
          /\ r.title # <<>>
          /\ r.created = r.modified

\* C4: for every existing record and every non-empty subset of {title, tags,
\* description} supplied to update, update changes exactly the supplied
\* fields to the supplied values, leaves id, filepath, created and every
\* unsupplied field untouched, leaves every other record unchanged, and sets
\* modified to a value greater than or equal to the prior modified.
C4_UpdateFrame ==
    [][\A id \in RowIds : \A u \in UpdateArgs :
          ( /\ u.title # NULL \/ u.tags # NoneList \/ u.description # NULL
            /\ get_snippet(id) # {}
            /\ update_snippet(id, u.title, u.tags, u.description) )
          => \A r \in get_snippet(id) :
                /\ {o \in snippets' : o.id # id} = {o \in snippets : o.id # id}
                /\ Cardinality(get_snippet(id)') = 1
                /\ \A n \in get_snippet(id)' :
                      /\ n.title = IF u.title # NULL THEN u.title ELSE r.title
                      /\ n.tags = IF u.tags # NoneList THEN Join(u.tags, ",")
                                  ELSE r.tags
                      /\ n.description = IF u.description # NULL
                                         THEN u.description ELSE r.description
                      /\ n.filepath = r.filepath
                      /\ n.created = r.created
                      /\ StampTime(n.modified) >= StampTime(r.modified)]_vars

\* no id occurs twice in list s
NoRepeat(s) == \A i \in DOMAIN s : \A j \in DOMAIN s : i # j => s[i] # s[j]

\* C5: under any interleaving of insert and delete (and update), the records
\* of the index have pairwise distinct ids, and an id returned by insert never
\* equals an id returned by an earlier insert, even if that record has since
\* been deleted.
C5_IdsUniqueNeverReused ==
    /\ \A r1 \in snippets : \A r2 \in snippets : r1.id = r2.id => r1 = r2
    /\ NoRepeat(issued)
    /\ {r.id : r \in snippets} \subseteq Range(issued)

\* a state after insert, delete of the record with the largest id (leaving the
\* index empty), and another insert
C5_Witness ==
    /\ Len(issued) = 2
    /\ Cardinality(snippets) = 1
    /\ ret.op = "add" /\ ret.signal = "ok"
    /\ \A r \in snippets : r.id = issued[2]

\* C6: insert called with an empty title or an empty tag sequence fails with a
\* constraint condition and persists no record.
C6_InsertRejectsEmpty ==
    [][\A a \in InsertArgs :
          ( /\ a.title = <<>> \/ a.tags = <<>>
            /\ add_snippet(a.title, a.tags, a.description, a.filepath) )
          => (ret'.signal = "IntegrityError" /\ snippets' = snippets)]_vars

\* C7: delete(id) removes the record with that id and no other; when no record
\* has that id, delete signals "not found" and leaves the index unchanged.
C7_DeleteSignalsNotFound ==
    [][\A id \in RowIds :
          delete_snippet(id)
          => /\ snippets' = {r \in snippets : r.id # id}
             /\ get_snippet(id) = {} =>
                   (ret'.signal = "not found" /\ snippets' = snippets)]_vars

\* C16: update called with no optional field set performs no write at all:
\* every field of every record, the target's modified stamp included, is
\* unchanged; and whenever at least one of title, tags or description is
\* supplied for an existing record, its modified stamp is set to the time of
\* the call.
C16_UpdateWritesIffSupplied ==
    [][\A id \in RowIds : \A u \in UpdateArgs :
          update_snippet(id, u.title, u.tags, u.description)
          => /\ (u.title = NULL /\ u.tags = NoneList /\ u.description = NULL)
                   => snippets' = snippets
             /\ (u.title # NULL \/ u.tags # NoneList \/ u.description # NULL)
                   => \A n \in get_snippet(id)' : n.modified = IsoFormat(now')]_vars

----------------------------------------------------------------------------
(* The commands add and import-file, the editor and the files directory *)

\* the length of the template of create_snippet_file for an empty title and
\* an empty description
TemplateFixedLen == 192

\* what the user types at the prompts (click.prompt without a default asks
\* again until the answer is not empty)
TitleInputs == { <<" ">>, <<"A", " ", "b">>, <<"a", "_", "b">> }
TagsInputs == { <<"x", ",", " ", "y">>, <<" ", ",", " ">> }
DescriptionInputs == { <<"d">> }

\* the files import-file is pointed at: name, suffix and content (a content
\* is its length and whether it is all whitespace)
SourceFiles ==
    { [stem |-> <<"a", "_", "b">>, suffix |-> ".md",
       content |-> [len |-> 5, blank |-> FALSE]],
      [stem |-> <<"n">>, suffix |-> ".txt",
       content |-> [len |-> 7, blank |-> FALSE]] }

\* what the user types at the Title prompt of import-file: nothing (the
\* default, the file's stem, is taken) or a title
ImportTitleInputs == { <<>>, <<" ">> }

\* str.isalnum() on one character of the model's alphabet
IsAlnum(c) == c \in {"a", "b", "c", "d", "n", "x", "y", "z", "A", "B"} \cup Range(DigitChars)

\* "".join(c if c.isalnum() or c in ('-', '_') else '_' for c in title.lower())
SafeName(title) ==
    [i \in 1..Len(title) |->
        LET c == LowerChar(title[i])
        IN  IF IsAlnum(c) \/ c \in {"-", "_"} THEN c ELSE "_"]

\* f"{filename}_{counter}"
Suffixed(filename, counter) == filename \o <<"_", Digit(counter)>>

\* the derived name taken as it is, with no "avoid overwrites" loop
FreeNameUnchecked(fs, filename) == filename

\* the path the "avoid overwrites" loop ends with: the name itself if no file
\* has it, else the first of name_1, name_2, ... that no file has
FreeName(fs, filename) ==
    IF filename \notin DOMAIN fs THEN filename
    ELSE LET k == CHOOSE c \in 1..9 :
                    /\ Suffixed(filename, c) \notin DOMAIN fs
                    /\ \A b \in 1..(c - 1) : Suffixed(filename, b) \in DOMAIN fs
         IN  Suffixed(filename, k)

\* the template text: never blank, its length grows with title and description
Template(title, description) ==
    [len |-> TemplateFixedLen + Len(title) + Len(description), blank |-> FALSE]

\* Path.write_text
WriteText(fs, name, content) ==
    [n \in DOMAIN fs \cup {name} |-> IF n = name THEN content ELSE fs[n]]

\* Path.unlink
Unlink(fs, name) == [n \in DOMAIN fs \ {name} |-> fs[n]]

\* the whole answer taken as one tag, not split on ','
ParseTagsUnsplit(tags_input) ==
    IF Strip(tags_input) = <<>> THEN <<>> ELSE <<Strip(tags_input)>>

\* tags split on ',' and kept as typed, neither stripped nor filtered for blanks
ParseTagsUnstripped(tags_input) ==
    SelectSeq(SplitOn(tags_input, ","), LAMBDA t : t # <<>>)

\* tags = [t.strip() for t in tags_input.split(',') if t.strip()]
ParseTags(tags_input) ==
    LET parts == SplitOn(tags_input, ",")
        kept == SelectSeq(parts, LAMBDA t : Strip(t) # <<>>)
    IN  [i \in 1..Len(kept) |-> Strip(kept[i])]

\* what the editor may leave in a file whose template has length L
EditedContents(L) ==
    { [len |-> 0, blank |-> TRUE],
      [len |-> L \div 2, blank |-> FALSE],
      [len |-> (L \div 2) + 1, blank |-> FALSE],
      [len |-> L + 1, blank |-> TRUE],
      [len |-> L + 1, blank |-> FALSE] }

\* content counted only when it is longer than the whole template
HasContentBeyondTemplate(content, template) ==
    ~content.blank /\ content.len > template.len

\* content.strip() and len(content) > len(template) * 0.5
HasContent(content, template) ==
    ~content.blank /\ 2 * content.len > template.len

Said(command, messages) == [cmd |-> command, msgs |-> messages]

\* add, up to the point where it waits for the editor (or returns): the
\* prompts, create_snippet_file, open_editor; launched tells whether
\* subprocess.call started the editor or raised
CliAdd(title, tags_input, description, launched) ==
    /\ cmd.pc = "idle"
    /\ UNCHANGED <<snippets, seq, now, ret, calls, issued>>
    /\ IF Strip(title) = <<>>
       THEN /\ out' = Said("add", <<"Title cannot be empty">>)
            /\ UNCHANGED <<files, cmd>>
       ELSE IF ParseTags(tags_input) = <<>>
       THEN /\ out' = Said("add", <<"At least one tag is required">>)
            /\ UNCHANGED <<files, cmd>>
       ELSE LET filepath == FreeName(files, SafeName(title))
                template == Template(title, description)
            IN  /\ Cardinality(DOMAIN files) < MaxFiles
                /\ files' = WriteText(files, filepath, template)
                /\ IF launched
                   THEN /\ cmd' = [pc |-> "editor", title |-> title,
                                   tags |-> ParseTags(tags_input),
                                   description |-> description,
                                   filepath |-> filepath, template |-> template]
                        /\ out' = Said("add", <<"Opening editor">>)
                   ELSE /\ out' = Said("add", <<"Opening editor",
                                                "Error opening editor",
                                                "Snippet creation cancelled">>)
                        /\ UNCHANGED cmd

\* the editor exits having left `saved` in the file; create_snippet_file reads
\* it and add inserts the record or reports the cancellation
CliEditorExits(saved) ==
    /\ cmd.pc = "editor"
    /\ cmd' = [pc |-> "idle"]
    /\ UNCHANGED calls
    /\ IF HasContent(saved, cmd.template)
       THEN /\ files' = WriteText(files, cmd.filepath, saved)
            /\ add_snippet(cmd.title, cmd.tags, cmd.description, cmd.filepath)
            /\ out' = Said("add", <<"Opening editor", "created successfully">>)
       ELSE /\ files' = Unlink(files, cmd.filepath)
            /\ out' = Said("add", <<"Opening editor", "Snippet creation cancelled">>)
            /\ UNCHANGED <<snippets, seq, now, ret, issued>>

\* import-file on an existing source file
CliImport(src, title_input, tags_input, description) ==
    /\ cmd.pc = "idle"
    /\ UNCHANGED <<cmd, calls>>
    /\ IF src.suffix # ".md"
       THEN /\ out' = Said("import", <<"Only markdown files can be imported">>)
            /\ UNCHANGED <<snippets, seq, now, ret, issued, files>>
       ELSE IF ParseTags(tags_input) = <<>>
       THEN /\ out' = Said("import", <<"At least one tag is required">>)
            /\ UNCHANGED <<snippets, seq, now, ret, issued, files>>
       ELSE LET title == IF title_input = <<>> THEN src.stem ELSE title_input
                new_filepath == FreeName(files, src.stem)
            IN  /\ Cardinality(DOMAIN files) < MaxFiles
                /\ files' = WriteText(files, new_filepath, src.content)
                /\ add_snippet(title, ParseTags(tags_input), description, new_filepath)
                /\ out' = Said("import", <<"Imported successfully">>)

Add ==
    /\ \E title \in TitleInputs, tags_input \in TagsInputs,
          description \in DescriptionInputs, launched \in BOOLEAN :
           CliAdd(title, tags_input, description, launched)
    /\ UNCHANGED <<app, inbox>>

EditorExits ==
    /\ cmd.pc = "editor"
    /\ \E saved \in {files[cmd.filepath]} \cup EditedContents(cmd.template.len) :
          CliEditorExits(saved)
    /\ UNCHANGED <<app, inbox>>

Import ==
    /\ \E src \in SourceFiles, title_input \in ImportTitleInputs,
          tags_input \in TagsInputs, description \in DescriptionInputs :
           CliImport(src, title_input, tags_input, description)
    /\ UNCHANGED <<app, inbox>>

NextCli == Add \/ EditorExits \/ Import

SpecCli == Init /\ [][NextCli]_vars

----------------------------------------------------------------------------
(* Claims about the commands *)

\* C8: when the snippet file is created from a template of length L and the
\* editor returns with the file left unchanged (still the template), the add
\* flow deletes the file and creates no record in the index.
C8_UnchangedTemplateCancels ==
    [][(cmd.pc = "editor" /\ files[cmd.filepath] = cmd.template
          /\ CliEditorExits(cmd.template))
       => (cmd.filepath \notin DOMAIN files' /\ snippets' = snippets)]_vars

\* C9: when the editor process fails to start during the add flow, the
\* failure is reported and neither files nor records are mutated: the files
\* of the files directory and the records of the index are the same after the
\* command as before it.
C9_EditorLaunchFailureMutatesNothing ==
    [][\A title \in TitleInputs, tags_input \in TagsInputs,
          description \in DescriptionInputs :
          ( /\ Strip(title) # <<>> /\ ParseTags(tags_input) # <<>>
            /\ CliAdd(title, tags_input, description, FALSE) )
          => /\ "Error opening editor" \in Range(out'.msgs)
             /\ files' = files
             /\ snippets' = snippets]_vars

\* text made of whitespace only (the empty text too)
BlankText(s) == \A i \in DOMAIN s : IsSpace(s[i])

\* a tags answer that holds no non-blank tag: only whitespace and commas
NoTagIn(tags_input) == \A i \in DOMAIN tags_input : tags_input[i] \in {" ", ","}

\* the command reported and stopped before it touched anything
AbortedUntouched ==
    /\ files' = files
    /\ snippets' = snippets /\ seq' = seq
    /\ cmd' = cmd /\ cmd'.pc = "idle"
    /\ out'.msgs \in { <<"Title cannot be empty">>, <<"At least one tag is required">> }

\* C10: a validation failure in add (empty or blank title, or no non-blank
\* tag) or in import-file (no non-blank tag) aborts the command without
\* mutating state: no file is created or copied into the files directory, the
\* editor is not launched, and no record is inserted.
C10_ValidationFailureMutatesNothing ==
    [][/\ \A title \in TitleInputs, tags_input \in TagsInputs,
             description \in DescriptionInputs, launched \in BOOLEAN :
             ( /\ BlankText(title) \/ NoTagIn(tags_input)
               /\ CliAdd(title, tags_input, description, launched) )
             => AbortedUntouched
       /\ \A src \in SourceFiles, title_input \in ImportTitleInputs,
             tags_input \in TagsInputs, description \in DescriptionInputs :
             ( /\ src.suffix = ".md" /\ NoTagIn(tags_input)
               /\ CliImport(src, title_input, tags_input, description) )
             => AbortedUntouched]_vars

\* a state right after an add that was refused for its tags, with a file and a
\* record already in place
C10_Witness ==
    /\ out = Said("add", <<"At least one tag is required">>)
    /\ DOMAIN files # {}
    /\ snippets # {}

\* the add command created its record for the file the editor left
AddInserted(saved) ==
    /\ files' = WriteText(files, cmd.filepath, saved)
    /\ \E r \in snippets' :
          /\ snippets' = snippets \cup {r} /\ r \notin snippets
          /\ r.filepath = cmd.filepath /\ r.title = cmd.title
    /\ "created successfully" \in Range(out'.msgs)

\* the add command deleted its file, inserted nothing and said so
AddCancelled ==
    /\ files' = Unlink(files, cmd.filepath)
    /\ snippets' = snippets
    /\ "Snippet creation cancelled" \in Range(out'.msgs)

\* no step that leaves add waiting in the editor, and no step of add before
\* the editor was started, inserts a record
NoInsertBeforeEditorReturns ==
    /\ cmd'.pc = "editor" => snippets' = snippets
    /\ \A title \in TitleInputs, tags_input \in TagsInputs,
          description \in DescriptionInputs, launched \in BOOLEAN :
          CliAdd(title, tags_input, description, launched) => snippets' = snippets

\* C17 (as stated): in the add flow, after the editor session returns, a
\* record is inserted if and only if the final file length is more than half
\* the template's length; otherwise the file is deleted, no record is
\* inserted and the command reports cancellation. The record is never
\* inserted before the editor has returned.
C17_InsertedIffLongEnough ==
    [][/\ cmd.pc = "editor" =>
             \A saved \in {files[cmd.filepath]} \cup EditedContents(cmd.template.len) :
                 CliEditorExits(saved) =>
                     IF 2 * saved.len > cmd.template.len
                     THEN AddInserted(saved) ELSE AddCancelled
       /\ NoInsertBeforeEditorReturns]_vars

\* C17 (amended): in the add flow, after the editor session returns, a record
\* is inserted if and only if the final file content is not all whitespace
\* and its length is more than half the template's length; otherwise the file
\* is deleted, no record is inserted and the command reports cancellation.
\* The record is never inserted before the editor has returned.
C17_InsertedIffRealContent ==
    [][/\ cmd.pc = "editor" =>
             \A saved \in {files[cmd.filepath]} \cup EditedContents(cmd.template.len) :
                 CliEditorExits(saved) =>
                     IF ~saved.blank /\ 2 * saved.len > cmd.template.len
                     THEN AddInserted(saved) ELSE AddCancelled
       /\ NoInsertBeforeEditorReturns]_vars

\* a state right after add inserted a record whose file the editor left
\* shorter than the template and longer than half of it
C17_Witness ==
    /\ out = Said("add", <<"Opening editor", "created successfully">>)
    /\ \E r \in snippets :
          /\ r.id = ret.id
          /\ r.filepath \in DOMAIN files
          /\ files[r.filepath].len < Template(r.title, r.description).len
          /\ 2 * files[r.filepath].len > Template(r.title, r.description).len

\* tags is a well-formed tag sequence and the tags field of r splits back to it
TagsRecovered(r, tags) ==
    /\ tags # <<>>
    /\ \A i \in DOMAIN tags : tags[i] # <<>> /\ "," \notin Range(tags[i])
    /\ TagList(r.tags) = tags

\* C18: in every state reachable through any sequence of add and import
\* commands, with any answers at the prompts, every record of the index has a
\* non-empty title and at least one tag, every tag token is non-empty and free
\* of the ',' delimiter, and splitting the stored tags field on the delimiter
\* gives exactly the tag sequence that was inserted.
C18_RecordsWellFormed ==
    /\ [](\A r \in snippets :
             /\ r.title # NULL /\ r.title # <<>>
             /\ r.tags # NULL
             /\ TagList(r.tags) # <<>>
             /\ \A i \in DOMAIN TagList(r.tags) : TagList(r.tags)[i] # <<>>)
    /\ [][/\ cmd.pc = "editor" =>
                 \A r \in snippets' \ snippets : TagsRecovered(r, cmd.tags)
          /\ \A src \in SourceFiles, title_input \in ImportTitleInputs,
                tags_input \in TagsInputs, description \in DescriptionInputs :
                CliImport(src, title_input, tags_input, description) =>
                    \A r \in snippets' \ snippets :
                        TagsRecovered(r, ParseTags(tags_input))]_vars

\* a state holding a record made by add and a record made by import-file under
\* a title of one space, each with two tags
C18_Witness ==
    \E r1 \in snippets : \E r2 \in snippets :
        /\ r1.title = <<" ">> /\ Len(TagList(r1.tags)) = 2
        /\ r2.title = <<"A", " ", "b">> /\ Len(TagList(r2.tags)) = 2

\* path is the base name if no file has it, else the first of base_1, base_2,
\* ... that no file has
FirstFree(fs, base, path) ==
    \/ base \notin DOMAIN fs /\ path = base
    \/ /\ base \in DOMAIN fs
       /\ \E c \in 1..9 :
             /\ path = Suffixed(base, c)
             /\ path \notin DOMAIN fs
             /\ \A b \in 1..(c - 1) : Suffixed(base, b) \in DOMAIN fs

\* the step created exactly one file, under the first free name of base, and
\* left every file that existed as it was
CreatedBeside(base) ==
    \E path \in DOMAIN files' :
        /\ FirstFree(files, base, path)
        /\ DOMAIN files' = DOMAIN files \cup {path}
        /\ \A n \in DOMAIN files : files'[n] = files[n]

\* the file of the add command that waits in the editor, if there is one
OwnFile == IF cmd.pc = "editor" THEN {cmd.filepath} ELSE {}

\* C19: file creation by add and import never overwrites an existing file: the
\* chosen path is the derived base name if it is free, otherwise the first of
\* base_1, base_2, ... that does not exist; so after any sequence of add
\* (completed or cancelled) and import commands no two records of the index
\* have the same filepath, and a cancelled add deletes only the file it
\* created itself.
C19_NoOverwrite ==
    /\ [](/\ \A r1 \in snippets : \A r2 \in snippets :
                r1.filepath = r2.filepath => r1 = r2
           /\ \A r \in snippets : r.filepath \in DOMAIN files \ OwnFile)
    /\ [][/\ \A title \in TitleInputs, tags_input \in TagsInputs,
                description \in DescriptionInputs, launched \in BOOLEAN :
                ( /\ Strip(title) # <<>> /\ ParseTags(tags_input) # <<>>
                  /\ CliAdd(title, tags_input, description, launched) )
                => /\ CreatedBeside(SafeName(title))
                   /\ launched => cmd'.filepath \in DOMAIN files' \ DOMAIN files
          /\ \A src \in SourceFiles, title_input \in ImportTitleInputs,
                tags_input \in TagsInputs, description \in DescriptionInputs :
                ( /\ src.suffix = ".md" /\ ParseTags(tags_input) # <<>>
                  /\ CliImport(src, title_input, tags_input, description) )
                => /\ CreatedBeside(src.stem)
                   /\ \A r \in snippets' \ snippets :
                         r.filepath \in DOMAIN files' \ DOMAIN files
          /\ \A n \in DOMAIN files \ OwnFile :
                n \in DOMAIN files' /\ files'[n] = files[n]]_vars

\* a state in which two records were given the same base name and the second
\* one's file was put beside the first under the suffix _1
C19_Witness ==
    \E r1 \in snippets : \E r2 \in snippets :
        /\ r1.id < r2.id
        /\ r1.filepath = <<"a", "_", "b">>
        /\ r2.filepath = <<"a", "_", "b", "_", "1">>
        /\ files[r1.filepath] # files[r2.filepath]

----------------------------------------------------------------------------
(* The browse session: SnippetApp *)

\* the query texts typed into the search box or given on the command line
BrowseQueries == { <<>>, <<" ">>, <<"a">> }

\* what an editor started from the session may write to the file
BrowseEdits == { [len |-> 9, blank |-> FALSE] }

\* the input events of the session: the search box is changed to a text, the
\* list is asked to highlight the item at an index, the enter key is pressed
InputEvents ==
    {[type |-> "query", text |-> q, index |-> NoIndex] : q \in BrowseQueries}
      \cup {[type |-> "select", text |-> <<>>, index |-> i] : i \in 0..(MaxFiles - 1)}
      \cup {[type |-> "open", text |-> <<>>, index |-> NoIndex]}

\* an exception that leaves a handler ends the app
Raised(a, exception) == [a EXCEPT !.pc = "crashed", !.error = exception]

\* SnippetViewer.show_snippet: the Markdown widget shows the record and the content
show_snippet(a, snippet, content) ==
    [a EXCEPT !.detail = << [snippet |-> snippet, content |-> content] >>]

\* SnippetViewer.clear_display: the Markdown widget shows ""
clear_display(a) == [a EXCEPT !.detail = <<>>]

\* index counts from 0; viewer.update does not exist (SnippetViewer defines
\* show_snippet and clear_display only, and a Container has no update), so
\* the branch for a missing file raises AttributeError
show_snippet_at_index(a, fs, index) ==
    IF 0 <= index /\ index < Len(a.snippets)
    THEN LET snippet == a.snippets[index + 1]
         IN  IF snippet.filepath \in DOMAIN fs
             THEN show_snippet(a, snippet, fs[snippet.filepath])
             ELSE Raised(a, "AttributeError")
    ELSE a

\* update_list once search_snippets has returned found: snippet_list.clear()
\* leaves no item highlighted
Listed(a, fs, found) ==
    LET cleared == [a EXCEPT !.snippets = found, !.index = NoIndex]
    IN  IF found # <<>>
        THEN show_snippet_at_index([cleared EXCEPT !.index = 0], fs, 0)
        ELSE clear_display(cleared)

\* the apps update_list(query) may leave
update_list(a, fs, query) ==
    IF SearchRaises(query) THEN {Raised(a, "OperationalError")}
    ELSE {Listed(a, fs, found) : found \in search_snippets(query)}

\* the Input holds value when its Changed message is handled
on_search_change(a, fs, value) == update_list([a EXCEPT !.query = value], fs, value)

on_mount(a, fs, initial_query) ==
    IF Truthy(initial_query) THEN on_search_change(a, fs, initial_query)
    ELSE update_list(a, fs, <<>>)

\* the ListView highlights item index and posts Highlighted when it has that
\* item (one per entry of self.snippets) and it is not the highlighted one
Highlights(a, index) ==
    0 <= index /\ index < Len(a.snippets) /\ index # a.index

on_list_highlight(a, fs) ==
    IF a.index # NoIndex THEN show_snippet_at_index(a, fs, a.index) ELSE a

\* action_open_snippet up to the return of open_editor, or to the point where
\* subprocess.call waits for the editor it has started
action_open_snippet(a, fs, launched) ==
    IF a.index # NoIndex /\ 0 <= a.index /\ a.index < Len(a.snippets)
    THEN IF a.snippets[a.index + 1].filepath \in DOMAIN fs
         THEN IF launched THEN [a EXCEPT !.pc = "editor"]
              ELSE show_snippet_at_index(a, fs, a.index)
         ELSE a
    ELSE a

\* after the editor the edited record is moved to the front of the results
AfterEditorMovedFirst(a, fs) ==
    LET edited == a.snippets[a.index + 1]
        others == SelectSeq(a.snippets, LAMBDA r : r # edited)
    IN  show_snippet_at_index(
            [a EXCEPT !.pc = "idle", !.snippets = <<edited>> \o others, !.index = 0],
            fs, 0)

\* the rest of action_open_snippet once subprocess.call has returned
AfterEditor(a, fs) == show_snippet_at_index([a EXCEPT !.pc = "idle"], fs, a.index)

\* the app takes input events while the editor it started is still running
HandlesWhileEditing(type) ==
    app.pc \in {"idle", "editor"} /\ inbox # <<>> /\ Head(inbox).type = type

\* the app takes input events one at a time; while a handler waits in
\* subprocess.call no other handler runs
Handles(type) == app.pc = "idle" /\ inbox # <<>> /\ Head(inbox).type = type

\* the text the search box will hold when the pending events are handled
BoxText ==
    LET typed == SelectSeq(inbox, LAMBDA e : e.type = "query")
    IN  IF typed = <<>> THEN app.query ELSE typed[Len(typed)].text

\* import-file run before the session on a markdown file, with tags given,
\* while the index is small; the prompts of a command take more than a clock
\* unit, so its record is stamped later than the one before
Seed ==
    /\ app.pc = "off"
    /\ seq < MaxFiles
    /\ \E src \in SourceFiles, title_input \in ImportTitleInputs,
          tags_input \in TagsInputs, description \in DescriptionInputs :
           /\ src.suffix = ".md" /\ ParseTags(tags_input) # <<>>
           /\ CliImport(src, title_input, tags_input, description)
    /\ now' > now
    /\ UNCHANGED <<app, inbox>>

\* a snippet file is removed from FILES_DIR by something other than snip
FileRemoved ==
    /\ cmd.pc = "idle"
    /\ \E n \in DOMAIN files : files' = Unlink(files, n)
    /\ UNCHANGED <<snippets, seq, now, ret, calls, issued, cmd, out, app, inbox>>

\* snip [words]: SnippetApp(initial_query).run() up to the end of on_mount
Launch ==
    /\ app.pc = "off" /\ cmd.pc = "idle"
    /\ \E initial_query \in BrowseQueries :
          app' \in on_mount([AppOff EXCEPT !.pc = "idle"], files, initial_query)
    /\ UNCHANGED <<snippets, seq, now, ret, calls, issued, files, cmd, out, inbox>>

\* the user types or presses a key; the event waits until the app takes it
Arrive ==
    /\ app.pc \in {"idle", "editor"}
    /\ Len(inbox) < MaxPending
    /\ \E e \in InputEvents :
          /\ e.type = "query" => e.text # BoxText
          /\ inbox' = Append(inbox, e)
    /\ UNCHANGED <<snippets, seq, now, ret, calls, issued, files, cmd, out, app>>

QueryChanged ==
    /\ Handles("query")
    /\ app' \in on_search_change(app, files, Head(inbox).text)
    /\ inbox' = Tail(inbox)
    /\ UNCHANGED <<snippets, seq, now, ret, calls, issued, files, cmd, out>>

SelectionChanged ==
    /\ Handles("select")
    /\ LET index == Head(inbox).index
       IN  app' = IF Highlights(app, index)
                  THEN on_list_highlight([app EXCEPT !.index = index], files)
                  ELSE app
    /\ inbox' = Tail(inbox)
    /\ UNCHANGED <<snippets, seq, now, ret, calls, issued, files, cmd, out>>

OpenRequested ==
    /\ Handles("open")
    /\ \E launched \in BOOLEAN : app' = action_open_snippet(app, files, launched)
    /\ inbox' = Tail(inbox)
    /\ UNCHANGED <<snippets, seq, now, ret, calls, issued, files, cmd, out>>

\* the editor exits, having written the file or not
EditorReturns ==
    /\ app.pc = "editor"
    /\ \/ files' = files
       \/ \E saved \in BrowseEdits :
             files' = WriteText(files, app.snippets[app.index + 1].filepath, saved)
    /\ app' = AfterEditor(app, files')
    /\ UNCHANGED <<snippets, seq, now, ret, calls, issued, cmd, out, inbox>>

NextBrowse ==
    \/ Seed \/ FileRemoved \/ Launch \/ Arrive
    \/ QueryChanged \/ SelectionChanged \/ OpenRequested \/ EditorReturns

SpecBrowse == Init /\ [][NextBrowse]_vars

----------------------------------------------------------------------------
(* Claims about the browse session *)

\* the session has a selection: an item is highlighted and self.snippets has it
HasSelection(a) == a.index # NoIndex /\ 0 <= a.index /\ a.index < Len(a.snippets)

\* the record the selection of a points at
SelectedRecord(a) == a.snippets[a.index + 1]

\* the detail pane of a shows the inline error for a file that is not there
ShowsFileNotFound(a, filepath) ==
    a.detail = << [error |-> "File not found", filepath |-> filepath] >>

\* the step ran a handler that renders the detail pane for the selection
Rendered ==
    \/ Launch
    \/ QueryChanged
    \/ SelectionChanged /\ Highlights(app, Head(inbox).index)
    \/ EditorReturns

\* C11: when the content file of the selected record does not exist,
\* SelectionChanged, and the refresh after OpenRequested or QueryChanged, shows
\* an inline error message in the detail pane and the session continues in
\* Idle with query, results and selection as the event left them; the session
\* never terminates or crashes because of a missing file.
C11_MissingFileShownInline ==
    [][(Rendered /\ HasSelection(app')
          /\ SelectedRecord(app').filepath \notin DOMAIN files')
       => /\ app'.pc = "idle"
          /\ app'.error = ""
          /\ ShowsFileNotFound(app', SelectedRecord(app').filepath)
          /\ (SelectionChanged \/ EditorReturns) =>
                (app'.query = app.query /\ app'.snippets = app.snippets)]_vars

\* the detail pane of a shows the selected record, or is cleared when there is
\* no selection
DetailFollowsSelection(a) ==
    IF a.index = NoIndex THEN a.detail = <<>>
    ELSE /\ HasSelection(a)
         /\ a.detail # <<>>
         /\ a.detail[1].snippet = SelectedRecord(a)

\* C12: after every QueryChanged(newText) the session's results equal
\* search(newText) and selectedIndex is 0 if results is non-empty and "no
\* selection" otherwise; so in every reachable Idle state of the session the
\* selection is absent or satisfies 0 <= selectedIndex < len(results), and
\* the detail pane shows the record results[selectedIndex] or is cleared when
\* there is no selection.
C12_SelectionTracksResults ==
    /\ [][QueryChanged =>
             /\ app'.snippets \in search_snippets(Head(inbox).text)
             /\ app'.index = IF app'.snippets # <<>> THEN 0 ELSE NoIndex
             /\ DetailFollowsSelection(app')]_vars
    /\ [](app.pc = "idle" =>
             /\ app.index = NoIndex \/ HasSelection(app)
             /\ DetailFollowsSelection(app))

\* C13: search, and so QueryChanged in the browse session, never fails with a
\* raw error for any query text: a query that is not empty and is made of
\* whitespace only splits into zero terms and returns every record in
\* modified-descending order, and the session stays in Idle with those
\* results.
C13_BlankQueryListsAll ==
    [][(QueryChanged /\ Head(inbox).text # <<>> /\ SplitWs(Head(inbox).text) = <<>>)
       => /\ app'.error # "OperationalError"
          /\ app'.query = Head(inbox).text
          /\ app'.snippets \in search_snippets(<<>>)]_vars

\* the detail pane of a shows record r over the content file r has in fs
ShowsContent(a, fs, r) ==
    /\ r.filepath \in DOMAIN fs
    /\ a.detail = << [snippet |-> r, content |-> fs[r.filepath]] >>

\* C14: on OpenRequested, if a selection exists the editor is invoked on the
\* file of results[selectedIndex] and on no other file, and after the editor
\* returns the detail pane is refreshed for the same selectedIndex and shows
\* the file's content as it is after the edit; if no selection exists,
\* OpenRequested invokes no editor and changes nothing.
C14_OpenEditsSelected ==
    [][/\ (OpenRequested /\ HasSelection(app)) =>
             \/ app'.pc = "editor" /\ app'.index = app.index
             \/ app'.pc = "idle" /\ app'.index = app.index
                  /\ ShowsContent(app', files', SelectedRecord(app))
       /\ (OpenRequested /\ ~HasSelection(app)) => (app' = app /\ files' = files)
       /\ EditorReturns =>
             /\ \A n \in DOMAIN files \cup DOMAIN files' :
                   n # SelectedRecord(app).filepath =>
                       (n \in DOMAIN files /\ n \in DOMAIN files' /\ files'[n] = files[n])
             /\ app'.pc = "idle"
             /\ app'.index = app.index
             /\ ShowsContent(app', files', SelectedRecord(app))]_vars

\* inbox' is inbox with events added at its end
Extends(old, new) == Len(new) >= Len(old) /\ SubSeq(new, 1, Len(old)) = old

\* C15: while the external editor launched by OpenRequested is running, the
\* session handles no input event: no QueryChanged, SelectionChanged or
\* further OpenRequested is processed, and no search or render happens,
\* between the editor's launch and its exit; each input event is resolved
\* before the next one is processed; events that arrive during the edit wait
\* in order and take effect only after the editor exits.
C15_EditorBlocksInput ==
    [][/\ app.pc = "editor" =>
             /\ Extends(inbox, inbox')
             /\ app' = app \/ (EditorReturns /\ app'.pc # "editor")
             /\ ~(QueryChanged \/ SelectionChanged \/ OpenRequested)
       /\ ~Extends(inbox, inbox') =>
             /\ app.pc = "idle"
             /\ inbox' = Tail(inbox)
             /\ QueryChanged \/ SelectionChanged \/ OpenRequested
       /\ app' # app =>
             \/ app.pc = "off" /\ Launch
             \/ app.pc = "editor" /\ EditorReturns
             \/ app.pc = "idle" /\ inbox' = Tail(inbox)]_vars

\* a state in which the editor is running and a change of the search box,
\* made during the edit, waits for the app
C15_Witness ==
    /\ app.pc = "editor"
    /\ inbox # <<>>
    /\ Head(inbox).type = "query"
    /\ Head(inbox).text # app.query

\* C20: SelectionChanged and OpenRequested leave the session's query and
\* results and the whole metadata index unchanged: editing a snippet's
\* content through the session changes neither the record's modified stamp
\* nor any other field, so search, which reads nothing but the index, puts
\* it at the same position before and after the edit, and results is only
\* ever replaced by QueryChanged (and computed once when the session starts).
C20_BrowseLeavesIndex ==
    [][/\ (SelectionChanged \/ OpenRequested \/ EditorReturns) =>
             /\ app'.query = app.query
             /\ app'.snippets = app.snippets
             /\ snippets' = snippets /\ seq' = seq
       /\ app'.snippets # app.snippets => (QueryChanged \/ Launch)]_vars

\* a state right after the second record of the results was edited through
\* the session: the pane shows the new content, the record has the stamp it
\* was created with and is still second
C20_Witness ==
    /\ app.pc = "idle"
    /\ app.index = 1
    /\ HasSelection(app)
    /\ ShowsContent(app, files, SelectedRecord(app))
    /\ files[SelectedRecord(app).filepath] \in BrowseEdits
    /\ SelectedRecord(app) \in snippets
    /\ SelectedRecord(app).modified = SelectedRecord(app).created

====
